---- MODULE Spec2Model ----
(***************************************************************************)
(* Model of the Atlas DNS/ping correlation pipeline                         *)
(* (src/correlate_dns_ping.py, src/ip2ci.py).                               *)
(*                                                                         *)
(* Three specifications share the module:                                  *)
(*   SpecMatcher    find_latest_resolved_set as a pure function            *)
(*   SpecEnrich     a run of add_ci_to_row requests over the two caches    *)
(*   SpecCorrelate  the line loop of correlate                             *)
(*                                                                         *)
(* Python values: an Optional value is a sequence of length at most one    *)
(* (None is <<>>, a present value v is <<v>>); a str is the sequence of    *)
(* its characters, so that slicing ([:13]) is computed, not assumed.       *)
(***************************************************************************)
EXTENDS Integers, Sequences, FiniteSets, TLC

VARIABLES
    time_points,    \* matcher input: sequence of [t, ips]
    ts,             \* matcher input: query timestamp
    best,           \* matcher locals at return: best_ips, best_prefix,
                    \* best_time_diff, best_t
    ret,            \* matcher return value: None before the call, Some(set)
    ip2loc_cache,   \* ip -> Optional location (None: no entry)
    loc2ci_cache,   \* ip -> Optional carbon response (None: no entry)
    ELECTRICITYMAPS_ENDPOINT,  \* path segments appended to the base URL
    req,            \* the last add_ci_to_row request: arguments, return
                    \* value and the resolver calls it made (None: none yet)
    requested,      \* history: the (ip, hour-bucket) pairs requested so far
    repeated,       \* history: the last request had the arguments of the
                    \* request before it
    lines,          \* correlate input: the lines of the ping file
    max_rows,       \* correlate input: the cap
    line_num,       \* correlate: number of the line read last (enumerate)
    rows,           \* correlate output: the rows written after the header
    pc,             \* correlate: "loop" in the for loop, "done" after it;
                    \* main: "saving" in save_cache, "exit", "crashed"
    records,        \* ci_stats input: the rows correlate wrote to the CSV
    stats,          \* ci_stats: what compute_ci_aggregates returned (None
                    \* before the call)
    per_hour_min_ci,  \* ci_stats: what compute_hourly_min_ci returned
    hourly_savings,   \* ci_stats: what compute_hourly_savings returned
    best_rtt,         \* ci_stats: the best_rtt column of compare_rtt_latency
    dns_file,       \* indexer input: the DNS results of the measurement file
    dns_results,    \* what extract_probe_resolved_ips returned (None before)
    dns_index,      \* what build_dns_index returned (None before)
    cache_file,     \* the document in CACHE_FILE (None: no such file)
    tmp_file,       \* the document in CACHE_FILE.tmp (None: no such file)
    loaded          \* history: the CACHE_FILE content at process start

matcherVars == <<time_points, ts, best, ret>>

enrichVars == <<ip2loc_cache, loc2ci_cache, ELECTRICITYMAPS_ENDPOINT,
                req, requested, repeated>>

driverVars == <<lines, max_rows, line_num, rows, pc>>

statsVars == <<records, stats, per_hour_min_ci, hourly_savings, best_rtt>>

indexVars == <<dns_file, dns_results, dns_index>>

fileVars == <<cache_file, tmp_file, loaded>>

vars == <<time_points, ts, best, ret, ip2loc_cache, loc2ci_cache,
          ELECTRICITYMAPS_ENDPOINT, req, requested, repeated,
          lines, max_rows, line_num, rows, pc,
          records, stats, per_hour_min_ci, hourly_savings, best_rtt,
          dns_file, dns_results, dns_index,
          cache_file, tmp_file, loaded>>

---------------------------------------------------------------------------
(* Python values *)

None == <<>>

Some(v) == <<v>>

IsNone(x) == x = <<>>

Val(x) == x[1]

Min2(a, b) == IF a <= b THEN a ELSE b

Abs(x) == IF x < 0 THEN 0 - x ELSE x

---------------------------------------------------------------------------
(* Bounds and input domains *)

\* candidates per probe handed to the matcher
MaxSnapshots == 3

IPs == {"ip1", "ip2"}

\* snapshot timestamps: 15 is a proper prefix of 1500; 999/1900 straddle
\* 1000; 1400/1600 are equidistant from 1500 with the same prefix length
Timestamps == {15, 999, 1400, 1600, 1900}

QueryTimestamps == {1000, 1500}

IpSets == {{"ip1"}, {"ip1", "ip2"}}

Snapshots == [t : Timestamps, ips : IpSets]

SeqsUpTo(S, n) == UNION {[1..k -> S] : k \in 0..n}

\* loc_to_ci calls in one run (each call lengthens the endpoint)
MaxCiCalls == 2

\* the IPs in sorted() order
IpOrder == <<"ip1", "ip2">>

\* sorted(list(s)) for a set s of IPs
Sorted(s) == SelectSeq(IpOrder, LAMBDA x : x \in s)

\* the lists correlate hands to add_ci_to_row: sorted, without duplicates
IpLists == {Sorted(s) : s \in SUBSET IPs}

\* dst_addr if dst_addr else "": a destination that can be in the list, at
\* its first or its second position, and the missing destination
DstIPs == {"ip2", ""}

Locations == {[latitude |-> "lat1", longitude |-> "lon1"]}

CiValues == {10}

---------------------------------------------------------------------------
(* src/correlate_dns_ping.py: _common_prefix_length *)

RECURSIVE DecStr(_)
\* str(int(a)) for a >= 0: the decimal digits, most significant first
DecStr(a) == IF a < 10 THEN <<a>> ELSE DecStr(a \div 10) \o <<a % 10>>

RECURSIVE PrefixFromShort(_, _, _)
\* mutation of PrefixFrom: the loop stops one character before the end of
\* the first string
PrefixFromShort(sa, sb, i) ==
    IF i + 1 >= Len(sa) \/ i >= Len(sb) THEN i
    ELSE IF sa[i + 1] # sb[i + 1] THEN i
    ELSE PrefixFromShort(sa, sb, i + 1)

RECURSIVE PrefixFrom(_, _, _)
\* the zip loop: stop at the first mismatch or at the end of the shorter
PrefixFrom(sa, sb, i) ==
    IF i >= Len(sa) \/ i >= Len(sb) THEN i
    ELSE IF sa[i + 1] # sb[i + 1] THEN i
    ELSE PrefixFrom(sa, sb, i + 1)

_common_prefix_length(a, b) == PrefixFrom(DecStr(a), DecStr(b), 0)

---------------------------------------------------------------------------
(* src/correlate_dns_ping.py: find_latest_resolved_set *)

\* best_ips = set(), best_prefix = -1, best_time_diff = None, best_t = None
BestInit == [ips |-> {}, prefix |-> -1, time_diff |-> None, t |-> None]

\* mutation of ScanStep: an exact tie in all three keys replaces the best
ScanStepLastWins(b, cand, q) ==
    LET prefix_len == _common_prefix_length(cand.t, q)
        time_diff  == Abs(cand.t - q)
        select ==
            \/ prefix_len > b.prefix
            \/ /\ prefix_len = b.prefix
               /\ \/ IsNone(b.time_diff)
                  \/ time_diff < Val(b.time_diff)
                  \/ time_diff = Val(b.time_diff) /\ cand.t >= Val(b.t)
    IN IF select
       THEN [ips |-> cand.ips, prefix |-> prefix_len,
             time_diff |-> Some(time_diff), t |-> Some(cand.t)]
       ELSE b

\* mutation of ScanStep: nearest-timestamp matching, prefix as tie-break
ScanStepNearest(b, cand, q) ==
    LET prefix_len == _common_prefix_length(cand.t, q)
        time_diff  == Abs(cand.t - q)
        select ==
            \/ IsNone(b.time_diff)
            \/ time_diff < Val(b.time_diff)
            \/ time_diff = Val(b.time_diff) /\ prefix_len > b.prefix
    IN IF select
       THEN [ips |-> cand.ips, prefix |-> prefix_len,
             time_diff |-> Some(time_diff), t |-> Some(cand.t)]
       ELSE b

\* mutation of ScanStep: without the third rule (the greater t on an equal
\* prefix and an equal distance), the candidate scanned first stays
ScanStepFirstWins(b, cand, q) ==
    LET prefix_len == _common_prefix_length(cand.t, q)
        time_diff  == Abs(cand.t - q)
        select ==
            \/ prefix_len > b.prefix
            \/ /\ prefix_len = b.prefix
               /\ (IsNone(b.time_diff) \/ time_diff < Val(b.time_diff))
    IN IF select
       THEN [ips |-> cand.ips, prefix |-> prefix_len,
             time_diff |-> Some(time_diff), t |-> Some(cand.t)]
       ELSE b

\* the body of the for loop: decide select, then update the running best
ScanStep(b, cand, q) ==
    LET prefix_len == _common_prefix_length(cand.t, q)
        time_diff  == Abs(cand.t - q)
        select ==
            IF prefix_len > b.prefix THEN TRUE
            ELSE IF prefix_len = b.prefix
                 THEN IF IsNone(b.time_diff) \/ time_diff < Val(b.time_diff)
                      THEN TRUE
                      ELSE /\ time_diff = Val(b.time_diff)
                           /\ (IsNone(b.t) \/ cand.t > Val(b.t))
                 ELSE FALSE
    IN IF select
       THEN [ips |-> cand.ips, prefix |-> prefix_len,
             time_diff |-> Some(time_diff), t |-> Some(cand.t)]
       ELSE b

RECURSIVE ScanFrom(_, _, _, _)
\* the for loop over time_points from position i on
ScanFrom(b, tp, q, i) ==
    IF i > Len(tp) THEN b
    ELSE ScanFrom(ScanStep(b, tp[i], q), tp, q, i + 1)

find_latest_resolved_set(tp, q) ==
    IF Len(tp) = 0 THEN {}
    ELSE ScanFrom(BestInit, tp, q, 1).ips


---------------------------------------------------------------------------
(* str values: datetime.isoformat() and slicing *)

Chr == <<"0", "1", "2", "3", "4", "5", "6", "7", "8", "9">>

TwoDigits(n) == <<Chr[(n \div 10) + 1], Chr[(n % 10) + 1]>>

\* 2025-10-07, in days since the epoch
Day2025 == 20368

\* date.isoformat() of the day the model's timestamps lie in
IsoDate(d) ==
    CASE d = Day2025 ->
        <<"2", "0", "2", "5", "-", "1", "0", "-", "0", "7">>

\* datetime.fromtimestamp(t).isoformat() with the local zone at UTC
Isoformat(t) ==
    LET d == t \div 86400
        s == t % 86400
    IN IsoDate(d) \o <<"T">> \o TwoDigits(s \div 3600) \o <<":">>
       \o TwoDigits((s % 3600) \div 60) \o <<":">> \o TwoDigits(s % 60)

Epoch(d, hh, mm) == d * 86400 + hh * 3600 + mm * 60

T1500 == Isoformat(Epoch(Day2025, 15, 0))

T1559 == Isoformat(Epoch(Day2025, 15, 59))

T1600 == Isoformat(Epoch(Day2025, 16, 0))

QueryInstants == {T1559, T1600}

\* s[:13]
Slice13(s) == SubSeq(s, 1, Min2(13, Len(s)))

---------------------------------------------------------------------------
(* src/ip2ci.py: the answers of the two external resolvers *)

\* ip_to_loc returns (location, None) or (None, error)
GeoResponses ==
    {<<Some(l), None>> : l \in Locations} \cup {<<None, Some("error")>>}

\* the "datetime" member of a carbon response: the hour the value is
\* published for
ResponseDatetimes == {Some(T1500), Some(T1600)}

\* the dict loc_to_ci returns on success, read with .get()
CiData == [datetime : ResponseDatetimes,
           carbonIntensity : {Some(v) : v \in CiValues} \cup {None}]

\* loc_to_ci returns (data, None) or (None, error)
CiResponses ==
    {<<Some(d), None>> : d \in CiData} \cup {<<None, Some("error")>>}

\* loc_to_ci with time given: ELECTRICITYMAPS_ENDPOINT += "/past"
loc_to_ci_endpoint(endpoint) == Append(endpoint, "/past")

---------------------------------------------------------------------------
(* src/correlate_dns_ping.py: add_ci_to_row *)

\* dst_ci = -1.0
DST_CI_DEFAULT == -1

\* cached_time and cached_time[:13] == time[:13]
CarbonHit(cached_ci, time) ==
    LET cached_time == cached_ci.datetime
    IN /\ ~IsNone(cached_time)
       /\ Len(Val(cached_time)) > 0
       /\ Slice13(Val(cached_time)) = Slice13(time)

\* the state add_ci_to_row works on: the two global caches, the endpoint
\* global of ip2ci, its locals ci_list and dst_ci, and the calls made
RowStart(loc, ci, endpoint) ==
    [ip2loc_cache |-> loc, loc2ci_cache |-> ci, endpoint |-> endpoint,
     ci_list |-> <<>>, dst_ci |-> Some(DST_CI_DEFAULT),
     geo_calls |-> <<>>, ci_calls |-> <<>>]

\* mutation of RowTail: the value is appended at the front of ci_list
RowTailFront(st, ip, dst_ip, ci_data) ==
    [st EXCEPT !.ci_list = <<ci_data.carbonIntensity>> \o @,
               !.dst_ci = IF ip = dst_ip
                          THEN ci_data.carbonIntensity ELSE @]

\* mutation of RowTail: dst_ci is set for every IP of the list
RowTailAnyIp(st, ip, dst_ip, ci_data) ==
    [st EXCEPT !.ci_list = Append(@, ci_data.carbonIntensity),
               !.dst_ci = ci_data.carbonIntensity]

\* lines 167-171: append the carbon intensity, set dst_ci for dst_ip
RowTail(st, ip, dst_ip, ci_data) ==
    [st EXCEPT !.ci_list = Append(@, ci_data.carbonIntensity),
               !.dst_ci = IF ip = dst_ip
                          THEN ci_data.carbonIntensity ELSE @]

\* mutation of RowFetchCi: an error removes the entry of ip
RowFetchCiDropOnError(st, ip, dst_ip, time, loc_data, ci) ==
    LET endpoint == loc_to_ci_endpoint(st.endpoint)
        call == [ip |-> ip, lat |-> loc_data.latitude,
                 lon |-> loc_data.longitude, time |-> time,
                 url |-> endpoint, resp |-> ci]
        st2 == [st EXCEPT !.endpoint = endpoint,
                          !.ci_calls = Append(@, call)]
    IN IF ~IsNone(ci[2])
       THEN [st2 EXCEPT !.ci_list = Append(@, None),
                        !.loc2ci_cache[ip] = None]
       ELSE RowTail([st2 EXCEPT !.loc2ci_cache[ip] = ci[1]],
                    ip, dst_ip, Val(ci[1]))

\* lines 151-157 and 159-165: call loc_to_ci, record None on an error,
\* else overwrite the carbon cache entry of ip
RowFetchCi(st, ip, dst_ip, time, loc_data, ci) ==
    LET endpoint == loc_to_ci_endpoint(st.endpoint)
        call == [ip |-> ip, lat |-> loc_data.latitude,
                 lon |-> loc_data.longitude, time |-> time,
                 url |-> endpoint, resp |-> ci]
        st2 == [st EXCEPT !.endpoint = endpoint,
                          !.ci_calls = Append(@, call)]
    IN IF ~IsNone(ci[2])
       THEN [st2 EXCEPT !.ci_list = Append(@, None)]
       ELSE RowTail([st2 EXCEPT !.loc2ci_cache[ip] = ci[1]],
                    ip, dst_ip, Val(ci[1]))

\* mutation of RowCarbon: the carbon cache is never read
RowCarbonRefetch(st, ip, dst_ip, time, loc_data, ci) ==
    RowFetchCi(st, ip, dst_ip, time, loc_data, ci)

\* mutation of RowCarbon: any cache entry is a hit, whatever its hour
RowCarbonNoHourCheck(st, ip, dst_ip, time, loc_data, ci) ==
    IF ~IsNone(st.loc2ci_cache[ip])
    THEN RowTail(st, ip, dst_ip, Val(st.loc2ci_cache[ip]))
    ELSE RowFetchCi(st, ip, dst_ip, time, loc_data, ci)

\* lines 144-165: the carbon lookup of one ip
RowCarbon(st, ip, dst_ip, time, loc_data, ci) ==
    IF ~IsNone(st.loc2ci_cache[ip])
    THEN LET cached_ci == Val(st.loc2ci_cache[ip])
         IN IF CarbonHit(cached_ci, time)
            THEN RowTail(st, ip, dst_ip, cached_ci)
            ELSE RowFetchCi(st, ip, dst_ip, time, loc_data, ci)
    ELSE RowFetchCi(st, ip, dst_ip, time, loc_data, ci)

\* mutation of RowIp: an unknown entry ends the loop
RowIpAbort(st, ip, dst_ip, time, geo, ci) ==
    IF Len(st.ci_list) > 0 /\ IsNone(st.ci_list[Len(st.ci_list)]) THEN st
    ELSE IF ~IsNone(st.ip2loc_cache[ip])
    THEN RowCarbon(st, ip, dst_ip, time, Val(st.ip2loc_cache[ip]), ci)
    ELSE LET st1 == [st EXCEPT !.geo_calls =
                                   Append(@, [ip |-> ip, resp |-> geo])]
         IN IF ~IsNone(geo[2])
            THEN [st1 EXCEPT !.ci_list = Append(@, None)]
            ELSE RowCarbon([st1 EXCEPT !.ip2loc_cache[ip] = geo[1]],
                           ip, dst_ip, time, Val(geo[1]), ci)

\* mutation of RowIp: the location is fetched even when it is cached
RowIpRefetch(st, ip, dst_ip, time, geo, ci) ==
    LET st1 == [st EXCEPT !.geo_calls = Append(@, [ip |-> ip, resp |-> geo])]
    IN IF ~IsNone(geo[2])
       THEN [st1 EXCEPT !.ci_list = Append(@, None)]
       ELSE RowCarbon([st1 EXCEPT !.ip2loc_cache[ip] = geo[1]],
                      ip, dst_ip, time, Val(geo[1]), ci)

\* lines 128-171: one iteration of the for loop; geo and ci are the answers
\* ip_to_loc and loc_to_ci give if this iteration calls them
RowIp(st, ip, dst_ip, time, geo, ci) ==
    IF ~IsNone(st.ip2loc_cache[ip])
    THEN RowCarbon(st, ip, dst_ip, time, Val(st.ip2loc_cache[ip]), ci)
    ELSE LET st1 == [st EXCEPT !.geo_calls =
                                   Append(@, [ip |-> ip, resp |-> geo])]
         IN IF ~IsNone(geo[2])
            THEN [st1 EXCEPT !.ci_list = Append(@, None)]
            ELSE RowCarbon([st1 EXCEPT !.ip2loc_cache[ip] = geo[1]],
                           ip, dst_ip, time, Val(geo[1]), ci)

\* the answers worth telling apart: one arbitrary answer where the
\* iteration makes no call
GeoAnswers(st, ip) ==
    IF ~IsNone(st.ip2loc_cache[ip])
    THEN {<<None, Some("error")>>} ELSE GeoResponses

CiAnswers(st, ip, time) ==
    IF ~IsNone(st.loc2ci_cache[ip])
       /\ ~IsNone(st.ip2loc_cache[ip])
       /\ CarbonHit(Val(st.loc2ci_cache[ip]), time)
    THEN {<<None, Some("error")>>} ELSE CiResponses

RECURSIVE RowsFrom(_, _, _, _, _)
\* the for loop from position i on: every state it can end in, over the
\* answers of the resolvers
RowsFrom(st, ip_list, dst_ip, time, i) ==
    IF i > Len(ip_list) THEN {st}
    ELSE UNION {RowsFrom(RowIp(st, ip_list[i], dst_ip, time, geo, ci),
                         ip_list, dst_ip, time, i + 1) :
                  geo \in GeoAnswers(st, ip_list[i]),
                  ci \in CiAnswers(st, ip_list[i], time)}

\* add_ci_to_row(ip_list, dst_ip, time) on the caches loc, ci: the states
\* it can return in
add_ci_to_row(loc, ci, endpoint, ip_list, dst_ip, time) ==
    RowsFrom(RowStart(loc, ci, endpoint), ip_list, dst_ip, time, 1)

\* the request record kept of a call
Request(ip_list, dst_ip, time, out) ==
    [ip_list |-> ip_list, dst_ip |-> dst_ip, time |-> time,
     ci_list |-> out.ci_list, dst_ci |-> out.dst_ci,
     geo_calls |-> out.geo_calls, ci_calls |-> out.ci_calls]

SameArguments(r, ip_list, dst_ip, time) ==
    r.ip_list = ip_list /\ r.dst_ip = dst_ip /\ r.time = time

\* one call add_ci_to_row(ip_list, dst_ip, time) and its effect on the
\* globals
Enrich(ip_list, dst_ip, time) ==
    \E out \in add_ci_to_row(ip2loc_cache, loc2ci_cache,
                             ELECTRICITYMAPS_ENDPOINT, ip_list, dst_ip, time) :
        /\ Len(out.endpoint) <= MaxCiCalls
        /\ ip2loc_cache' = out.ip2loc_cache
        /\ loc2ci_cache' = out.loc2ci_cache
        /\ ELECTRICITYMAPS_ENDPOINT' = out.endpoint
        /\ req' = Some(Request(ip_list, dst_ip, time, out))
        /\ requested' = requested \cup
               {<<ip_list[i], Slice13(time)>> : i \in 1..Len(ip_list)}
        /\ repeated' = ( /\ ~IsNone(req)
                         /\ SameArguments(Val(req), ip_list, dst_ip, time) )

EnrichInit ==
    /\ ip2loc_cache = [ip \in IPs |-> None]
    /\ loc2ci_cache = [ip \in IPs |-> None]
    /\ ELECTRICITYMAPS_ENDPOINT = <<>>
    /\ req = None
    /\ requested = {}
    /\ repeated = FALSE

---------------------------------------------------------------------------
(* src/correlate_dns_ping.py: correlate *)

\* lines of the ping file
MaxLines == 3

\* the two ping instants: 2025-10-07 15:59:00 and 16:00:00
TsA == Epoch(Day2025, 15, 59)

TsB == Epoch(Day2025, 16, 0)

\* the index build_dns_index returns: for TsA the matcher selects the
\* snapshot of probe 1 at TsA + 50, for TsB the one at TsA + 70
DnsIndex ==
    [prb \in {1} |->
        <<[t |-> TsA + 50, ips |-> {"ip1", "ip2"}],
          [t |-> TsA + 70, ips |-> {"ip2"}]>>]

\* dns_index.get(int(prb_id), [])
IndexGet(prb_id) == IF prb_id \in DOMAIN DnsIndex THEN DnsIndex[prb_id] ELSE <<>>

\* a line of the ping file: blank, not JSON, or a JSON object read with
\* .get() (None: no such member)
Line(kind, type, prb_id, timestamp, dst_addr) ==
    [kind |-> kind, type |-> type, prb_id |-> prb_id,
     timestamp |-> timestamp, dst_addr |-> dst_addr]

BlankLine == Line("blank", "", None, None, None)

GarbageLine == Line("garbage", "", None, None, None)

DnsLine == Line("json", "dns", Some(1), Some(TsA), Some("ip2"))

PingNoProbe == Line("json", "ping", None, Some(TsA), Some("ip2"))

PingNoTimestamp == Line("json", "ping", Some(1), None, Some("ip2"))

\* probe 1 at TsA to ip2: the destination is in the selected set
PingA == Line("json", "ping", Some(1), Some(TsA), Some("ip2"))

\* probe 2, not in the index, at TsB, with no dst_addr
PingB == Line("json", "ping", Some(2), Some(TsB), None)

\* probe 1 at TsB to ip1: the selected set is {"ip2"}, the destination is
\* given and not a member
PingC == Line("json", "ping", Some(1), Some(TsB), Some("ip1"))

LineValues == {BlankLine, GarbageLine, DnsLine, PingNoProbe,
               PingNoTimestamp, PingA, PingB, PingC}

\* mutation of LineSkipped: the type of the object is not looked at
LineSkippedAnyType(line) ==
    \/ line.kind = "blank"
    \/ line.kind = "garbage"
    \/ IsNone(line.prb_id) \/ IsNone(line.timestamp)

\* lines 198-217: the four continue statements
LineSkipped(line) ==
    \/ line.kind = "blank"
    \/ line.kind = "garbage"
    \/ line.type # "ping"
    \/ IsNone(line.prb_id) \/ IsNone(line.timestamp)

\* dst_addr if dst_addr else ""
DstOrEmpty(line) == IF IsNone(line.dst_addr) THEN "" ELSE Val(line.dst_addr)

\* lines 219-221: the selected set, in_dns and the sorted list
SelectedSet(line) ==
    find_latest_resolved_set(IndexGet(Val(line.prb_id)), Val(line.timestamp))

\* mutation of InDns: a destination that is given counts as a member
InDnsAnyDst(line) ==
    IF IsNone(line.dst_addr) \/ DstOrEmpty(line) = "" THEN FALSE
    ELSE TRUE

\* line 220: dst_addr in selected_set if dst_addr else False
InDns(line) ==
    IF IsNone(line.dst_addr) \/ DstOrEmpty(line) = "" THEN FALSE
    ELSE Val(line.dst_addr) \in SelectedSet(line)

\* lines 228-239: the row written (src_addr and avg are copied from the
\* line and left out)
Row(line, ci_list, dst_ci) ==
    [prb_id |-> Val(line.prb_id),
     timestamp |-> Val(line.timestamp),
     readable_time |-> Isoformat(Val(line.timestamp)),
     selected_ip |-> DstOrEmpty(line),
     in_dns_set |-> IF InDns(line) THEN 1 ELSE 0,
     resolved_set |-> Sorted(SelectedSet(line)),
     ci_list |-> ci_list,
     selected_ip_ci |-> dst_ci]

DriverInit ==
    /\ lines \in SeqsUpTo(LineValues, MaxLines)
    /\ max_rows \in 0..MaxLines
    /\ line_num = 0
    /\ rows = <<>>
    /\ pc = "loop"

DriverIdle ==
    /\ lines = <<>>
    /\ max_rows = 0
    /\ line_num = 0
    /\ rows = <<>>
    /\ pc = "done"

\* an iteration of the for loop that ends in one of the continue statements
SkipLine ==
    /\ pc = "loop"
    /\ line_num < Len(lines)
    /\ LineSkipped(lines[line_num + 1])
    /\ line_num' = line_num + 1
    /\ UNCHANGED <<lines, max_rows, rows, pc>>
    /\ UNCHANGED enrichVars
    /\ UNCHANGED matcherVars
    /\ UNCHANGED <<statsVars, indexVars, fileVars>>

\* line 240: if line_num >= max_rows: break
CapReached(n, written) == n >= max_rows

\* an iteration of the for loop that writes a row (lines 219-241)
CorrelateLine ==
    /\ pc = "loop"
    /\ line_num < Len(lines)
    /\ ~LineSkipped(lines[line_num + 1])
    /\ LET line == lines[line_num + 1]
       IN /\ Enrich(Sorted(SelectedSet(line)), DstOrEmpty(line),
                    Isoformat(Val(line.timestamp)))
          /\ rows' = Append(rows, Row(line, Val(req').ci_list, Val(req').dst_ci))
    /\ line_num' = line_num + 1
    /\ pc' = IF CapReached(line_num + 1, Len(rows) + 1) THEN "done" ELSE "loop"
    /\ UNCHANGED <<lines, max_rows>>
    /\ UNCHANGED matcherVars
    /\ UNCHANGED <<statsVars, indexVars, fileVars>>

\* the for loop ends with the input
EndOfInput ==
    /\ pc = "loop"
    /\ line_num = Len(lines)
    /\ pc' = "done"
    /\ UNCHANGED <<lines, max_rows, line_num, rows>>
    /\ UNCHANGED enrichVars
    /\ UNCHANGED matcherVars
    /\ UNCHANGED <<statsVars, indexVars, fileVars>>

---------------------------------------------------------------------------
(* The correlated CSV: what correlate writes (csv.writer, json.dumps, str)  *)
(* and what ci_stats reads back (pandas.read_csv, literal_eval)             *)

\* rows of the correlated CSV handed to ci_stats
MaxRecords == 3

\* a text is the sequence of its lexemes, a lexeme the sequence of its
\* characters
LBracket == <<"[">>

RBracket == <<"]">>

\* the item separator of json.dumps
CommaSpace == <<",", " ">>

JsonNull == <<"n", "u", "l", "l">>

PyNone == <<"N", "o", "n", "e">>

\* str(v) of an int v >= 0
IntStr(v) == [i \in 1..Len(DecStr(v)) |-> Chr[DecStr(v)[i] + 1]]

\* str(-1.0): the sentinel dst_ci is a float
SentinelStr == <<"-", "1", ".", "0">>

IsDigit(c) == \E d \in 1..10 : Chr[d] = c

DigitVal(c) == (CHOOSE d \in 1..10 : Chr[d] = c) - 1

IsDigits(tok) == Len(tok) > 0 /\ \A i \in 1..Len(tok) : IsDigit(tok[i])

RECURSIVE ParseDigits(_, _, _)
\* int("...") of a digit string, from position i on with acc read so far
ParseDigits(tok, i, acc) ==
    IF i > Len(tok) THEN acc
    ELSE ParseDigits(tok, i + 1, acc * 10 + DigitVal(tok[i]))

RECURSIVE JsonItems(_, _)
\* the items of json.dumps(xs) from position i on: None is written null
JsonItems(xs, i) ==
    IF i > Len(xs) THEN <<>>
    ELSE (IF i > 1 THEN <<CommaSpace>> ELSE <<>>)
         \o <<IF IsNone(xs[i]) THEN JsonNull ELSE IntStr(Val(xs[i]))>>
         \o JsonItems(xs, i + 1)

\* json.dumps(ci_list)
json_dumps(xs) == <<LBracket>> \o JsonItems(xs, 1) \o <<RBracket>>

\* the cell csv.writer writes for dst_ci: None is written as the empty
\* string, a number by str()
CellOf(dst_ci) ==
    IF IsNone(dst_ci) THEN <<>>
    ELSE IF Val(dst_ci) < 0 THEN SentinelStr
    ELSE IntStr(Val(dst_ci))

\* the digits of a cell before the decimal point
IntegerPart(cell) ==
    LET dot == {i \in 1..Len(cell) : cell[i] = "."}
    IN IF dot = {} THEN cell
       ELSE SubSeq(cell, 1, (CHOOSE i \in dot : \A j \in dot : i <= j) - 1)

\* pd.to_numeric(cell, errors="coerce"): the empty cell is NaN (None here);
\* the model's cells have no fraction other than .0
to_numeric(cell) ==
    IF Len(cell) = 0 THEN None
    ELSE IF cell[1] = "-"
    THEN LET digits == IntegerPart(Tail(cell))
         IN IF IsDigits(digits) THEN Some(0 - ParseDigits(digits, 1, 0))
            ELSE None
    ELSE LET digits == IntegerPart(cell)
         IN IF IsDigits(digits) THEN Some(ParseDigits(digits, 1, 0))
            ELSE None

\* ast.literal_eval of a list display: an item is an int literal or None;
\* any other name (null) makes it raise ValueError (ok = FALSE)
literal_eval(text) ==
    LET n     == Len(text)
        inner == SubSeq(text, 2, n - 1)
        m     == Len(inner)
        item(tok) == IF IsDigits(tok) THEN Some(ParseDigits(tok, 1, 0))
                     ELSE None
        wellformed ==
            /\ n >= 2
            /\ text[1] = LBracket
            /\ text[n] = RBracket
            /\ m = 0 \/ m % 2 = 1
            /\ \A k \in 1..m :
                  IF k % 2 = 0 THEN inner[k] = CommaSpace
                  ELSE IsDigits(inner[k]) \/ inner[k] = PyNone
    IN IF wellformed
       THEN [ok |-> TRUE,
             value |-> [k \in 1..((m + 1) \div 2) |-> item(inner[2 * k - 1])]]
       ELSE [ok |-> FALSE, value |-> <<>>]

\* a record as correlate holds it when it writes the row: the columns
\* ci_stats reads
StatRecord(timestamp, ci_list, dst_ci) ==
    [timestamp |-> timestamp, ci_list |-> ci_list, selected_ip_ci |-> dst_ci]

\* the records of the statistics input: two hours (TsA is in the hour
\* before TsB), lists with and without unknown entries, the empty list, the
\* sentinel and the missing selected intensity
StatRecords ==
    {StatRecord(TsA, <<Some(20), Some(50)>>, Some(50)),
     StatRecord(TsA, <<Some(30), Some(80)>>, Some(80)),
     StatRecord(TsB, <<Some(10), None, Some(20)>>, Some(10)),
     StatRecord(TsA, <<>>, Some(DST_CI_DEFAULT)),
     StatRecord(TsB, <<Some(5)>>, Some(DST_CI_DEFAULT)),
     StatRecord(TsA, <<None, Some(30)>>, None)}

\* writer.writerow then pd.read_csv: the columns as text
load_dataframe(recs) ==
    [i \in 1..Len(recs) |->
        [timestamp |-> recs[i].timestamp,
         ci_list |-> json_dumps(recs[i].ci_list),
         selected_ip_ci |-> CellOf(recs[i].selected_ip_ci)]]

---------------------------------------------------------------------------
(* src/ci_stats.py *)

\* [int(x) for x in parsed if x is not None]
IntsOf(parsed) ==
    LET kept == SelectSeq(parsed, LAMBDA x : ~IsNone(x))
    IN [k \in 1..Len(kept) |-> Val(kept[k])]

\* lines 47-60: the empty text and any text literal_eval raises on give []
parse_list_of_ints(value) ==
    IF Len(value) = 0 THEN <<>>
    ELSE LET parsed == literal_eval(value)
         IN IF parsed.ok THEN IntsOf(parsed.value) ELSE <<>>

\* min(xs) of a non-empty list
MinOfSeq(xs) ==
    CHOOSE m \in {xs[k] : k \in 1..Len(xs)} :
        \A k \in 1..Len(xs) : m <= xs[k]

RECURSIVE SumFrom(_, _)
\* Series.sum(): 0 for the empty series
SumFrom(xs, i) == IF i > Len(xs) THEN 0 ELSE xs[i] + SumFrom(xs, i + 1)

\* lines 94-119; the rows of df are labelled by their position, df_ci is
\* the sequence of the labels it keeps
compute_ci_aggregates(df) ==
    LET n == Len(df)
        ci_list_parsed == [i \in 1..n |-> parse_list_of_ints(df[i].ci_list)]
        selected == [i \in 1..n |-> to_numeric(df[i].selected_ip_ci)]
        df_ci == SelectSeq([i \in 1..n |-> i],
                           LAMBDA i : /\ ~IsNone(selected[i])
                                      /\ Val(selected[i]) >= 0)
        best_ci == [i \in 1..n |->
                       IF Len(ci_list_parsed[i]) > 0
                       THEN Some(MinOfSeq(ci_list_parsed[i])) ELSE None]
        sum_selected ==
            SumFrom([k \in 1..Len(df_ci) |-> Val(selected[df_ci[k]])], 1)
        sum_best ==
            SumFrom([k \in 1..Len(df_ci) |->
                        IF IsNone(best_ci[df_ci[k]]) THEN 0
                        ELSE Val(best_ci[df_ci[k]])], 1)
        abs_savings == sum_selected - sum_best
    IN [df_ci |-> df_ci,
        ci_list_parsed |-> ci_list_parsed,
        selected |-> selected,
        sum_selected |-> sum_selected,
        sum_best |-> sum_best,
        abs_savings |-> abs_savings,
        \* abs_savings / sum_selected * 100 as a fraction num / den
        pct_savings |-> IF sum_selected > 0
                        THEN [num |-> abs_savings * 100, den |-> sum_selected]
                        ELSE [num |-> 0, den |-> 1]]

\* lines 122-151 as main calls it, with df_ci and ci_list_parsed of
\* compute_ci_aggregates.  Line 134 renumbers the selected lists 0..m-1 and
\* the column assignment aligns them with the labels of df_ci: the row
\* labelled i gets the i-th selected list, NaN (None) when there are fewer
compute_hourly_min_ci(df, df_ci, ci_list_parsed) ==
    LET m == Len(df_ci)
        renumbered == [k \in 1..m |-> ci_list_parsed[df_ci[k]]]
        column == [k \in 1..m |->
                      IF df_ci[k] <= m THEN Some(renumbered[df_ci[k]])
                      ELSE None]
        hour == [k \in 1..m |-> df[df_ci[k]].timestamp \div 3600]
        flattened(h) ==
            UNION {{Val(column[k])[j] : j \in 1..Len(Val(column[k]))} :
                     k \in {k \in 1..m : hour[k] = h /\ ~IsNone(column[k])}}
        hours == {hour[k] : k \in 1..m}
    IN [h \in {h \in hours : flattened(h) # {}} |->
           CHOOSE v \in flattened(h) : \A w \in flattened(h) : v <= w]

\* main, lines 266-272: read the CSV and compute the aggregates
ComputeCiAggregates ==
    /\ IsNone(stats)
    /\ stats' = Some(compute_ci_aggregates(load_dataframe(records)))
    /\ UNCHANGED <<records, per_hour_min_ci, hourly_savings, best_rtt>>
    /\ UNCHANGED <<matcherVars, enrichVars, driverVars, indexVars, fileVars>>

\* main, line 284
ComputeHourlyMinCi ==
    /\ ~IsNone(stats)
    /\ IsNone(per_hour_min_ci)
    /\ per_hour_min_ci' =
           Some(compute_hourly_min_ci(load_dataframe(records),
                                      Val(stats).df_ci,
                                      Val(stats).ci_list_parsed))
    /\ UNCHANGED <<records, stats, hourly_savings, best_rtt>>
    /\ UNCHANGED <<matcherVars, enrichVars, driverVars, indexVars, fileVars>>

\* lines 154-184, with df_ci as the labels compute_ci_aggregates kept:
\* None when no row has an hour minimum
compute_hourly_savings(df, df_ci, hour_min, sum_selected, sum_best) ==
    LET m == Len(df_ci)
        per_row_hour_min ==
            [k \in 1..m |->
                LET hour == df[df_ci[k]].timestamp \div 3600
                IN IF hour \in DOMAIN hour_min THEN Some(hour_min[hour])
                   ELSE None]
        sum_per_hour_min ==
            SumFrom([k \in 1..m |-> IF IsNone(per_row_hour_min[k]) THEN 0
                                    ELSE Val(per_row_hour_min[k])], 1)
    IN IF \A k \in 1..m : IsNone(per_row_hour_min[k]) THEN None
       ELSE Some([per_row_hour_min |-> per_row_hour_min,
                  sum_per_hour_min |-> sum_per_hour_min,
                  abs_savings_hour |-> sum_selected - sum_per_hour_min,
                  abs_savings_best_vs_hr |-> sum_best - sum_per_hour_min])

\* main, line 285
ComputeHourlySavings ==
    /\ ~IsNone(per_hour_min_ci)
    /\ IsNone(hourly_savings)
    /\ hourly_savings' =
           Some(compute_hourly_savings(load_dataframe(records),
                                       Val(stats).df_ci,
                                       Val(per_hour_min_ci),
                                       Val(stats).sum_selected,
                                       Val(stats).sum_best))
    /\ UNCHANGED <<records, stats, per_hour_min_ci, best_rtt>>
    /\ UNCHANGED <<matcherVars, enrichVars, driverVars, indexVars, fileVars>>

\* the rtt_list rtt_enrich adds to a row, aligned with ci_list: an RTT for
\* every position, here 10 ms times the position so that a wrong position
\* shows
RttColumn(rec) == [k \in 1..Len(rec.ci_list) |-> Some(10 * k)]

RECURSIVE PyItems(_, _)
\* the items of str(xs) from position i on: None is written None
PyItems(xs, i) ==
    IF i > Len(xs) THEN <<>>
    ELSE (IF i > 1 THEN <<CommaSpace>> ELSE <<>>)
         \o <<IF IsNone(xs[i]) THEN PyNone ELSE IntStr(Val(xs[i]))>>
         \o PyItems(xs, i + 1)

\* DataFrame.to_csv of a column of lists (src/rtt_enrich.py:98): str(xs)
py_repr(xs) == <<LBracket>> \o PyItems(xs, 1) \o <<RBracket>>

\* lines 63-80: None entries keep their positions
parse_list_of_floats(value) ==
    LET parsed == literal_eval(value)
    IN IF parsed.ok THEN parsed.value ELSE <<>>

RECURSIVE BestIndexFrom(_, _, _, _)
\* lines 191-196: the scan from position i on (positions count from 1
\* here), best_idx None or the position of best_val
BestIndexFrom(ci_list, i, best_val, best_idx) ==
    IF i > Len(ci_list) THEN best_idx
    ELSE IF IsNone(best_idx) \/ ci_list[i] < best_val
    THEN BestIndexFrom(ci_list, i + 1, ci_list[i], Some(i))
    ELSE BestIndexFrom(ci_list, i + 1, best_val, best_idx)

\* lines 187-197, on the lists parse_list_of_ints returns (no None entry)
find_best_ci_index(ci_list) == BestIndexFrom(ci_list, 1, 0, None)

\* lines 219-228: the best_rtt column, None for a row without one
compare_rtt_latency(recs) ==
    LET df == load_dataframe(recs)
        ci_lists == [i \in 1..Len(df) |-> parse_list_of_ints(df[i].ci_list)]
        rtt_lists == [i \in 1..Len(df) |->
                         parse_list_of_floats(py_repr(RttColumn(recs[i])))]
        best_indices == [i \in 1..Len(df) |-> find_best_ci_index(ci_lists[i])]
    IN [i \in 1..Len(df) |->
           IF ~IsNone(best_indices[i])
              /\ Val(best_indices[i]) <= Len(rtt_lists[i])
           THEN rtt_lists[i][Val(best_indices[i])]
           ELSE None]

\* main, lines 297-298, with --rtt
CompareRttLatency ==
    /\ IsNone(best_rtt)
    /\ best_rtt' = Some(compare_rtt_latency(records))
    /\ UNCHANGED <<records, stats, per_hour_min_ci, hourly_savings>>
    /\ UNCHANGED <<matcherVars, enrichVars, driverVars, indexVars, fileVars>>

StatsInit ==
    /\ records \in SeqsUpTo(StatRecords, MaxRecords)
    /\ stats = None
    /\ per_hour_min_ci = None
    /\ hourly_savings = None
    /\ best_rtt = None

---------------------------------------------------------------------------
(* src/ip2ci.py: load_cache, save_cache; src/correlate_dns_ping.py: main *)

\* the cache of a process that made no lookup
EmptyCache == [ip \in IPs |-> None]

\* a piece of the text json.dump writes: an opening or closing brace, or a
\* member with its value
Chunk(key, value) == [key |-> key, value |-> value]

\* json.dump({"ip_country": ..., "country_carbon": ...}, f), in the order
\* it is written to the file
Serialise(ip_country, country_carbon) ==
    <<Chunk("{", EmptyCache),
      Chunk("ip_country", ip_country),
      Chunk("country_carbon", country_carbon),
      Chunk("}", EmptyCache)>>

\* json.load(f): a text that is not a complete document raises (ok = FALSE)
json_load(text) ==
    IF /\ Len(text) = 4
       /\ text[1].key = "{"
       /\ text[2].key = "ip_country"
       /\ text[3].key = "country_carbon"
       /\ text[4].key = "}"
    THEN [ok |-> TRUE, ip_country |-> text[2].value,
          country_carbon |-> text[3].value]
    ELSE [ok |-> FALSE, ip_country |-> EmptyCache,
          country_carbon |-> EmptyCache]

\* load_cache(CACHE_FILE): ({}, {}) when there is no file or it cannot be
\* read
load_cache(file) ==
    IF IsNone(file) THEN <<EmptyCache, EmptyCache>>
    ELSE LET blob == json_load(Val(file))
         IN IF blob.ok THEN <<blob.ip_country, blob.country_carbon>>
            ELSE <<EmptyCache, EmptyCache>>

\* the caches an earlier run saved: ip2 located, at a place the resolver
\* no longer answers with, and its intensity of the hour 15:00
PrevIpCountry ==
    [ip \in IPs |-> IF ip = "ip2"
                    THEN Some([latitude |-> "lat0", longitude |-> "lon0"])
                    ELSE None]

PrevCountryCarbon ==
    [ip \in IPs |-> IF ip = "ip2"
                    THEN Some([datetime |-> Some(T1500),
                               carbonIntensity |-> Some(10)])
                    ELSE None]

\* the ping files of the runs of main
MainLines == SeqsUpTo({BlankLine, PingA, PingC}, MaxLines)

\* import of correlate_dns_ping (line 19) and main up to the call of
\* correlate: max_rows = 2; the temporary file may be left over from a run
\* that crashed in save_cache
MainInit ==
    /\ cache_file \in {None, Some(Serialise(PrevIpCountry, PrevCountryCarbon))}
    /\ tmp_file \in {None, Some(<<Chunk("{", EmptyCache)>>)}
    /\ loaded = cache_file
    /\ ip2loc_cache = load_cache(cache_file)[1]
    /\ loc2ci_cache = load_cache(cache_file)[2]
    /\ ELECTRICITYMAPS_ENDPOINT = <<>>
    /\ req = None
    /\ requested = {}
    /\ repeated = FALSE
    /\ lines \in MainLines
    /\ max_rows = 2
    /\ line_num = 0
    /\ rows = <<>>
    /\ pc = "loop"

\* mutation of SaveOpen: the document is written to CACHE_FILE itself
SaveOpenInPlace ==
    /\ pc = "done"
    /\ cache_file' = Some(<<>>)
    /\ pc' = "saving"
    /\ UNCHANGED <<tmp_file, loaded>>
    /\ UNCHANGED <<lines, max_rows, line_num, rows>>
    /\ UNCHANGED <<matcherVars, enrichVars, statsVars, indexVars>>

\* save_cache, line 95: open(tmp_path, "w") creates or truncates the
\* temporary file
SaveOpen ==
    /\ pc = "done"
    /\ tmp_file' = Some(<<>>)
    /\ pc' = "saving"
    /\ UNCHANGED <<cache_file, loaded>>
    /\ UNCHANGED <<lines, max_rows, line_num, rows>>
    /\ UNCHANGED <<matcherVars, enrichVars, statsVars, indexVars>>

\* save_cache, line 96: json.dump writes the document piece by piece
SaveWrite ==
    /\ pc = "saving"
    /\ Len(Val(tmp_file)) < Len(Serialise(ip2loc_cache, loc2ci_cache))
    /\ tmp_file' = Some(Append(Val(tmp_file),
                        Serialise(ip2loc_cache, loc2ci_cache)
                            [Len(Val(tmp_file)) + 1]))
    /\ UNCHANGED <<cache_file, loaded, pc>>
    /\ UNCHANGED <<lines, max_rows, line_num, rows>>
    /\ UNCHANGED <<matcherVars, enrichVars, statsVars, indexVars>>

\* save_cache, line 97: the file is closed and os.replace renames it over
\* CACHE_FILE in one step
SaveReplace ==
    /\ pc = "saving"
    /\ Len(Val(tmp_file)) = Len(Serialise(ip2loc_cache, loc2ci_cache))
    /\ cache_file' = tmp_file
    /\ tmp_file' = None
    /\ pc' = "exit"
    /\ UNCHANGED loaded
    /\ UNCHANGED <<lines, max_rows, line_num, rows>>
    /\ UNCHANGED <<matcherVars, enrichVars, statsVars, indexVars>>

\* main, lines 254-257: open, json.dump or os.replace raises (no output
\* directory, disk full); the exception is reported and main returns
SaveFails ==
    /\ pc \in {"done", "saving"}
    /\ pc' = "exit"
    /\ UNCHANGED fileVars
    /\ UNCHANGED <<lines, max_rows, line_num, rows>>
    /\ UNCHANGED <<matcherVars, enrichVars, statsVars, indexVars>>

\* the process is killed between two steps
Crash ==
    /\ pc \in {"loop", "done", "saving"}
    /\ pc' = "crashed"
    /\ UNCHANGED fileVars
    /\ UNCHANGED <<lines, max_rows, line_num, rows>>
    /\ UNCHANGED <<matcherVars, enrichVars, statsVars, indexVars>>

---------------------------------------------------------------------------
(* src/dns.py: extract_probe_resolved_ips;                                  *)
(* src/correlate_dns_ping.py: build_dns_index                               *)

\* DNS results in the measurement file
MaxResults == 3

\* a dict key: an int as extract_probe_resolved_ips makes it, or the
\* decimal string it becomes in the JSON extraction cache
IntKey(n) == [type |-> "int", n |-> n, chars |-> <<>>]

StrKey(n) == [type |-> "str", n |-> 0, chars |-> IntStr(n)]

\* int(key)
IntOf(key) ==
    IF key.type = "int" THEN key.n ELSE ParseDigits(key.chars, 1, 0)

\* a line of the DNS file: a result DnsResult can parse, with its probe,
\* its created_timestamp and the A/AAAA addresses of its answers, or a line
\* DnsResult raises on
DnsResultOf(ok, prb_id, timestamp, ips) ==
    [ok |-> ok, prb_id |-> prb_id, timestamp |-> timestamp, ips |-> ips]

MalformedResult == DnsResultOf(FALSE, 0, 0, {})

\* 1000 sorts before 999 as a string and after it as an int
DnsResultValues ==
    {DnsResultOf(TRUE, p, t, ips) :
        p \in {1, 2}, t \in {999, 1000}, ips \in {{}, {"ip1"}, {"ip2"}}}
    \cup {MalformedResult}

\* the position of the entry with the given key in a dict kept as the
\* sequence of its entries in insertion order (0: no such key)
KeyPos(entries, key) ==
    LET at == {i \in 1..Len(entries) : entries[i].key = key}
    IN IF at = {} THEN 0 ELSE CHOOSE i \in at : TRUE

\* mutation of AddResult: the addresses of a result replace those already
\* recorded for its timestamp
AddResultOverwrite(probe_results, r) ==
    LET pkey == IntKey(r.prb_id)
        tkey == IntKey(r.timestamp)
        with_probe ==
            IF KeyPos(probe_results, pkey) = 0
            THEN Append(probe_results, [key |-> pkey, measurements |-> <<>>])
            ELSE probe_results
        pi == KeyPos(with_probe, pkey)
        ms == with_probe[pi].measurements
        ms1 == IF KeyPos(ms, tkey) = 0
               THEN Append(ms, [key |-> tkey, resolved_ips |-> {}])
               ELSE ms
        mi == KeyPos(ms1, tkey)
    IN [with_probe EXCEPT ![pi].measurements =
           [ms1 EXCEPT ![mi].resolved_ips = r.ips]]

\* dns.py lines 16-51: one result; the probe entry and the timestamp entry
\* are created when missing, the addresses are added to the timestamp's set
AddResult(probe_results, r) ==
    LET pkey == IntKey(r.prb_id)
        tkey == IntKey(r.timestamp)
        with_probe ==
            IF KeyPos(probe_results, pkey) = 0
            THEN Append(probe_results, [key |-> pkey, measurements |-> <<>>])
            ELSE probe_results
        pi == KeyPos(with_probe, pkey)
        ms == with_probe[pi].measurements
        ms1 == IF KeyPos(ms, tkey) = 0
               THEN Append(ms, [key |-> tkey, resolved_ips |-> {}])
               ELSE ms
        mi == KeyPos(ms1, tkey)
    IN [with_probe EXCEPT ![pi].measurements =
           [ms1 EXCEPT ![mi].resolved_ips = @ \cup r.ips]]

RECURSIVE ExtractFrom(_, _, _)
\* dns.py lines 13-60: the loop over the lines; a line DnsResult raises on
\* is reported and skipped
ExtractFrom(file, i, probe_results) ==
    IF i > Len(file) THEN probe_results
    ELSE ExtractFrom(file, i + 1,
                     IF file[i].ok THEN AddResult(probe_results, file[i])
                     ELSE probe_results)

\* dns.py lines 5-75: the sets become sorted lists, and only the probes
\* that resolved an address at some timestamp are returned
extract_probe_resolved_ips(file) ==
    LET probe_results == ExtractFrom(file, 1, <<>>)
        listed == [i \in 1..Len(probe_results) |->
                     [key |-> probe_results[i].key,
                      measurements |->
                          [j \in 1..Len(probe_results[i].measurements) |->
                              [key |-> probe_results[i].measurements[j].key,
                               resolved_ips |->
                                   Sorted(probe_results[i].measurements[j]
                                              .resolved_ips)]]]]
    IN SelectSeq(listed,
                 LAMBDA d : \E j \in 1..Len(d.measurements) :
                                Len(d.measurements[j].resolved_ips) > 0)

\* _dns_cache_save then _dns_cache_load: the keys of a JSON object are
\* strings
JsonKeys(results) ==
    [i \in 1..Len(results) |->
        [key |-> StrKey(IntOf(results[i].key)),
         measurements |->
             [j \in 1..Len(results[i].measurements) |->
                 [key |-> StrKey(IntOf(results[i].measurements[j].key)),
                  resolved_ips |-> results[i].measurements[j].resolved_ips]]]]

RECURSIVE InsertByT(_, _)
\* the place of x in a sorted list: after every element that is not
\* greater (list.sort is stable)
InsertByT(sorted, x) ==
    IF Len(sorted) = 0 THEN <<x>>
    ELSE IF sorted[Len(sorted)].t <= x.t THEN Append(sorted, x)
    ELSE Append(InsertByT(SubSeq(sorted, 1, Len(sorted) - 1), x),
                sorted[Len(sorted)])

RECURSIVE SortFrom(_, _, _)
SortFrom(tp, i, sorted) ==
    IF i > Len(tp) THEN sorted
    ELSE SortFrom(tp, i + 1, InsertByT(sorted, tp[i]))

\* mutation of SortTimePoints: the list is left in the order of the dict
SortTimePointsNone(tp) == tp

\* line 32: time_points.sort(key=lambda x: x[0])
SortTimePoints(tp) == SortFrom(tp, 1, <<>>)

\* lines 28-32: the time points of one probe
TimePointsOf(data) ==
    SortTimePoints([j \in 1..Len(data.measurements) |->
                       [t |-> IntOf(data.measurements[j].key),
                        ips |-> {data.measurements[j].resolved_ips[k] :
                                   k \in 1..Len(data.measurements[j]
                                                    .resolved_ips)}]])

\* lines 22-34
build_dns_index(results) ==
    [p \in {IntOf(results[i].key) : i \in 1..Len(results)} |->
        TimePointsOf(results[CHOOSE i \in 1..Len(results) :
                                 IntOf(results[i].key) = p])]

\* correlate, lines 187-190: no extraction cached for the DNS file
ExtractDns ==
    /\ IsNone(dns_results)
    /\ dns_results' = Some(extract_probe_resolved_ips(dns_file))
    /\ UNCHANGED <<dns_file, dns_index>>
    /\ UNCHANGED <<matcherVars, enrichVars, driverVars, statsVars, fileVars>>

\* correlate, lines 183-186, in a later run: the extraction comes from the
\* JSON cache the earlier run saved
LoadDnsCache ==
    /\ ~IsNone(dns_results)
    /\ ~IsNone(dns_index)
    /\ \A i \in 1..Len(Val(dns_results)) :
           Val(dns_results)[i].key.type = "int"
    /\ dns_results' = Some(JsonKeys(Val(dns_results)))
    /\ dns_index' = None
    /\ UNCHANGED dns_file
    /\ UNCHANGED <<matcherVars, enrichVars, driverVars, statsVars, fileVars>>

\* correlate, line 191
BuildDnsIndex ==
    /\ ~IsNone(dns_results)
    /\ IsNone(dns_index)
    /\ dns_index' = Some(build_dns_index(Val(dns_results)))
    /\ UNCHANGED <<dns_file, dns_results>>
    /\ UNCHANGED <<matcherVars, enrichVars, driverVars, statsVars, fileVars>>

IndexInit ==
    /\ dns_file \in SeqsUpTo(DnsResultValues, MaxResults)
    /\ dns_results = None
    /\ dns_index = None

\* ci_stats not run
StatsIdle ==
    /\ records = <<>>
    /\ stats = None
    /\ per_hour_min_ci = None
    /\ hourly_savings = None
    /\ best_rtt = None

\* the DNS file not read
IndexIdle ==
    /\ dns_file = <<>>
    /\ dns_results = None
    /\ dns_index = None

\* no cache file on disk
FileIdle ==
    /\ cache_file = None
    /\ tmp_file = None
    /\ loaded = None

---------------------------------------------------------------------------
(* Specification of the matcher as a pure function *)

MatcherInit ==
    /\ time_points \in SeqsUpTo(Snapshots, MaxSnapshots)
    /\ ts \in QueryTimestamps
    /\ best = BestInit
    /\ ret = None
    /\ EnrichInit
    /\ DriverIdle
    /\ StatsIdle /\ IndexIdle /\ FileIdle

\* one call find_latest_resolved_set(time_points, ts)
Match ==
    /\ IsNone(ret)
    /\ best' = IF Len(time_points) = 0 THEN BestInit
               ELSE ScanFrom(BestInit, time_points, ts, 1)
    /\ ret' = Some(find_latest_resolved_set(time_points, ts))
    /\ UNCHANGED <<time_points, ts>>
    /\ UNCHANGED enrichVars
    /\ UNCHANGED driverVars
    /\ UNCHANGED <<statsVars, indexVars, fileVars>>

MatcherNext == Match

SpecMatcher == MatcherInit /\ [][MatcherNext]_vars

---------------------------------------------------------------------------
(* Specification of a run of add_ci_to_row requests *)

SpecEnrichInit ==
    /\ time_points = <<>>
    /\ ts = 0
    /\ best = BestInit
    /\ ret = None
    /\ EnrichInit
    /\ DriverIdle
    /\ StatsIdle /\ IndexIdle /\ FileIdle

AddCiToRow ==
    /\ \E ip_list \in IpLists, dst_ip \in DstIPs, time \in QueryInstants :
           Enrich(ip_list, dst_ip, time)
    /\ UNCHANGED matcherVars
    /\ UNCHANGED driverVars
    /\ UNCHANGED <<statsVars, indexVars, fileVars>>

EnrichNext == AddCiToRow

SpecEnrich == SpecEnrichInit /\ [][EnrichNext]_vars

---------------------------------------------------------------------------
(* Specification of correlate: the line loop over one ping file *)

SpecCorrelateInit ==
    /\ time_points = <<>>
    /\ ts = 0
    /\ best = BestInit
    /\ ret = None
    /\ EnrichInit
    /\ DriverInit
    /\ StatsIdle /\ IndexIdle /\ FileIdle

CorrelateNext == SkipLine \/ CorrelateLine \/ EndOfInput

SpecCorrelate == SpecCorrelateInit /\ [][CorrelateNext]_vars

---------------------------------------------------------------------------
(* Specification of a run of ci_stats over a correlated CSV *)

SpecStatsInit ==
    /\ time_points = <<>>
    /\ ts = 0
    /\ best = BestInit
    /\ ret = None
    /\ EnrichInit
    /\ DriverIdle
    /\ StatsInit /\ IndexIdle /\ FileIdle

StatsNext ==
    \/ ComputeCiAggregates \/ ComputeHourlyMinCi \/ ComputeHourlySavings
    \/ CompareRttLatency

SpecStats == SpecStatsInit /\ [][StatsNext]_vars

---------------------------------------------------------------------------
(* Specification of a run of main: load the caches, correlate, save *)

SpecMainInit ==
    /\ time_points = <<>>
    /\ ts = 0
    /\ best = BestInit
    /\ ret = None
    /\ MainInit
    /\ StatsIdle /\ IndexIdle

MainNext ==
    \/ SkipLine \/ CorrelateLine \/ EndOfInput
    \/ SaveOpen \/ SaveWrite \/ SaveReplace \/ SaveFails
    \/ Crash

SpecMain == SpecMainInit /\ [][MainNext]_vars

---------------------------------------------------------------------------
(* Specification of the snapshot indexer: extraction, cache, index *)

SpecIndexInit ==
    /\ time_points = <<>>
    /\ ts = 0
    /\ best = BestInit
    /\ ret = None
    /\ EnrichInit
    /\ DriverIdle
    /\ StatsIdle /\ IndexInit /\ FileIdle

IndexNext == ExtractDns \/ LoadDnsCache \/ BuildDnsIndex

SpecIndex == SpecIndexInit /\ [][IndexNext]_vars

---------------------------------------------------------------------------
(* Claims about the matcher *)

\* the selection key of candidate c for query q: (prefix_len, -|t - q|, t)
MatchKey(c, q) == <<_common_prefix_length(c.t, q), 0 - Abs(c.t - q), c.t>>

LexLess(k1, k2) ==
    \/ k1[1] < k2[1]
    \/ k1[1] = k2[1] /\ k1[2] < k2[2]
    \/ k1[1] = k2[1] /\ k1[2] = k2[2] /\ k1[3] < k2[3]

Maximisers(tp, q) ==
    LET key == [i \in 1..Len(tp) |-> MatchKey(tp[i], q)]
    IN {i \in 1..Len(tp) : \A j \in 1..Len(tp) : ~LexLess(key[i], key[j])}

FirstMaximiser(tp, q) ==
    LET M == Maximisers(tp, q)
    IN CHOOSE i \in M : \A j \in M : i <= j

\* C1: find_latest_resolved_set returns the IP set of the first candidate in
\* scan order among those that maximise (prefix_len, -|t - ts|, t)
\* lexicographically, and the empty set for an empty sequence.
C1_FirstLexMax ==
    ~IsNone(ret) =>
        Val(ret) = IF Len(time_points) = 0 THEN {}
                   ELSE time_points[FirstMaximiser(time_points, ts)].ips

\* two maximisers with different IP sets, the first of them not at position
\* 1: the scan has replaced its best and then kept it on an exact tie
C1_Witness ==
    /\ ~IsNone(ret)
    /\ \E i, j \in 1..Len(time_points) :
          /\ 1 < i /\ i < j
          /\ {i, j} \subseteq Maximisers(time_points, ts)
          /\ time_points[i].ips # time_points[j].ips
          /\ 1 \notin Maximisers(time_points, ts)
          /\ Val(ret) = time_points[i].ips

C1_WitnessEmpty == ~IsNone(ret) /\ Len(time_points) = 0 /\ Val(ret) = {}

\* C2: the matcher is not nearest-timestamp matching: whenever the selected
\* snapshot is farther from ts than another candidate it has a strictly
\* longer decimal common prefix with ts, and this happens: candidates 999
\* and 1900 with ts = 1000 select 1900.
C2_PrefixBeatsDistance ==
    (~IsNone(ret) /\ Len(time_points) > 0) =>
        /\ \A i \in 1..Len(time_points) :
              Abs(time_points[i].t - ts) < Val(best.time_diff) =>
                  _common_prefix_length(time_points[i].t, ts) < best.prefix
        /\ ( /\ Len(time_points) = 2
             /\ time_points[1].t = 999 /\ time_points[2].t = 1900
             /\ ts = 1000 )
           => (Val(best.t) = 1900 /\ Val(ret) = time_points[2].ips)

C2_Witness ==
    /\ ~IsNone(ret)
    /\ Len(time_points) = 2
    /\ time_points[1] = [t |-> 999, ips |-> {"ip1"}]
    /\ time_points[2] = [t |-> 1900, ips |-> {"ip1", "ip2"}]
    /\ ts = 1000
    /\ Val(ret) = {"ip1", "ip2"}
    /\ Val(best.time_diff) = 900
    /\ Abs(time_points[1].t - ts) = 1

RECURSIVE DigitLength(_)
\* the number of decimal digits of n >= 0
DigitLength(n) == IF n < 10 THEN 1 ELSE 1 + DigitLength(n \div 10)

\* C19: for non-negative integers t and ts, _common_prefix_length(t, ts) =
\* _common_prefix_length(ts, t), and _common_prefix_length(t, t) is the
\* number of decimal digits of t.
C19_PrefixSymmetric ==
    ~IsNone(ret) =>
        /\ _common_prefix_length(ts, ts) = DigitLength(ts)
        /\ \A i \in 1..Len(time_points) :
              LET t == time_points[i].t
              IN /\ _common_prefix_length(t, ts)
                        = _common_prefix_length(ts, t)
                 /\ _common_prefix_length(t, t) = DigitLength(t)

\* the matcher compared 1500 with 15, a proper prefix of it (prefix length
\* 2, the digit length of 15), and with 1400 (prefix length 1)
C19_Witness ==
    /\ ~IsNone(ret)
    /\ ts = 1500
    /\ \E i, j \in 1..Len(time_points) :
          /\ time_points[i].t = 15
          /\ time_points[j].t = 1400
          /\ _common_prefix_length(15, ts) = 2
          /\ _common_prefix_length(ts, 15) = 2
          /\ _common_prefix_length(1400, ts) = 1
          /\ _common_prefix_length(ts, ts) = 4

---------------------------------------------------------------------------
(* Claims about add_ci_to_row *)

\* the last request
R == Val(req)

Positions(r) == 1..Len(r.ip_list)

GeoCallsFor(r, ip) == {k \in 1..Len(r.geo_calls) : r.geo_calls[k].ip = ip}

CiCallsFor(r, ip) == {k \in 1..Len(r.ci_calls) : r.ci_calls[k].ip = ip}

GeoFailed(r, ip) ==
    \E k \in GeoCallsFor(r, ip) : ~IsNone(r.geo_calls[k].resp[2])

CiFailed(r, ip) ==
    \E k \in CiCallsFor(r, ip) : ~IsNone(r.ci_calls[k].resp[2])

NoCallsFor(r, ip) == GeoCallsFor(r, ip) = {} /\ CiCallsFor(r, ip) = {}

NoCalls(r) == r.geo_calls = <<>> /\ r.ci_calls = <<>>

\* the hour-bucket of an ISO-8601 string: its first 13 characters
HourBucket(str) == SubSeq(str, 1, 13)

\* both caches hold ip, the carbon entry stamped in the hour-bucket of time
Served(loc, ci, ip, time) ==
    /\ ~IsNone(loc[ip])
    /\ ~IsNone(ci[ip])
    /\ ~IsNone(Val(ci[ip]).datetime)
    /\ HourBucket(Val(Val(ci[ip]).datetime)) = HourBucket(time)

\* C3 as stated: after the first request for an IP in an hour-bucket, every
\* later request for the same IP in the same hour-bucket makes no
\* geolocation call and no carbon-intensity call for it.
C3_OncePerIpHour ==
    [][~IsNone(req') =>
          \A i \in Positions(Val(req')) :
              <<Val(req').ip_list[i], HourBucket(Val(req').time)>> \in requested
                  => NoCallsFor(Val(req'), Val(req').ip_list[i])]_vars

\* C3 amended: a request makes no resolver call for an IP that both caches
\* hold with the carbon entry stamped in the query's hour-bucket; a request
\* that obtains both lookups of an IP with the entry stamped in the query's
\* hour-bucket leaves the IP in that condition; and the condition lasts
\* until a request with that IP in its list and another hour-bucket.
C3_ServedFromCache ==
    [][~IsNone(req') =>
          LET r == Val(req') IN
          /\ \A i \in Positions(r) :
                Served(ip2loc_cache, loc2ci_cache, r.ip_list[i], r.time)
                    => NoCallsFor(r, r.ip_list[i])
          /\ \A i \in Positions(r) :
                ( /\ ~GeoFailed(r, r.ip_list[i])
                  /\ ~CiFailed(r, r.ip_list[i])
                  /\ HourBucket(Val(Val(loc2ci_cache'[r.ip_list[i]]).datetime))
                         = HourBucket(r.time) )
                    => Served(ip2loc_cache', loc2ci_cache', r.ip_list[i], r.time)
          /\ \A ip \in IPs, t \in QueryInstants :
                ( /\ Served(ip2loc_cache, loc2ci_cache, ip, t)
                  /\ \/ \A i \in Positions(r) : r.ip_list[i] # ip
                     \/ HourBucket(r.time) = HourBucket(t) )
                    => Served(ip2loc_cache', loc2ci_cache', ip, t)]_vars

\* a request for two IPs, both requested before in this hour-bucket, served
\* with no call
C3_Witness ==
    /\ ~IsNone(req)
    /\ R.ip_list = <<"ip1", "ip2">>
    /\ NoCalls(R)
    /\ R.ci_list = <<Some(10), Some(10)>>
    /\ {<<"ip1", HourBucket(R.time)>>, <<"ip2", HourBucket(R.time)>>}
           \subseteq requested

LocationKnown(r, loc, ip) == ~IsNone(loc[ip]) \/ ~GeoFailed(r, ip)

\* C5: for an IP whose location is known, the carbon-intensity resolver is
\* called if and only if the carbon cache has no entry for the IP or the
\* entry's datetime[:13] differs from the query instant's [:13]; an entry
\* stored with 2025-10-07T15:00:00 is a hit for 2025-10-07T15:59:00 and a
\* miss for 2025-10-07T16:00:00.
C5_CarbonCallIffMiss ==
    [][~IsNone(req') =>
          LET r == Val(req') IN
          \A i \in Positions(r) :
              LET ip == r.ip_list[i]
                  entry == loc2ci_cache[ip]
              IN LocationKnown(r, ip2loc_cache, ip) =>
                   /\ (CiCallsFor(r, ip) # {}) <=>
                         \/ IsNone(entry)
                         \/ HourBucket(Val(Val(entry).datetime))
                                # HourBucket(r.time)
                   /\ ( /\ ~IsNone(entry)
                        /\ Val(entry).datetime = Some(T1500)
                        /\ r.time = T1559 ) => CiCallsFor(r, ip) = {}
                   /\ ( /\ ~IsNone(entry)
                        /\ Val(entry).datetime = Some(T1500)
                        /\ r.time = T1600 ) => CiCallsFor(r, ip) # {}]_vars

\* a query at 16:00:00 for an IP whose entry is stamped 15:00:00 called the
\* resolver (the call failed, so the stale entry is still in the cache)
C5_Witness ==
    /\ ~IsNone(req)
    /\ R.time = T1600
    /\ R.ip_list = <<"ip1">>
    /\ ~IsNone(loc2ci_cache["ip1"])
    /\ Val(loc2ci_cache["ip1"]).datetime = Some(T1500)
    /\ CiFailed(R, "ip1")
    /\ T1600 = <<"2", "0", "2", "5", "-", "1", "0", "-", "0", "7", "T",
                 "1", "6", ":", "0", "0", ":", "0", "0">>

\* a query at 15:59:00 for an IP whose entry is stamped 15:00:00, requested
\* before, made no call
C5_WitnessHit ==
    /\ ~IsNone(req)
    /\ R.time = T1559
    /\ R.ip_list = <<"ip1">>
    /\ repeated
    /\ ~IsNone(loc2ci_cache["ip1"])
    /\ Val(loc2ci_cache["ip1"]).datetime = Some(T1500)
    /\ NoCalls(R)

PositionOf(r, ip) == CHOOSE i \in Positions(r) : r.ip_list[i] = ip

InList(r, ip) == \E i \in Positions(r) : r.ip_list[i] = ip

\* C6 as stated: dst_ci is the sentinel -1 or a number, never null; it is a
\* number only when dst_ip is in ip_list and a value was obtained for it,
\* and then equals the ci_list entry at dst_ip's position.
C6_DstCiNumberOrSentinel ==
    ~IsNone(req) =>
        /\ ~IsNone(R.dst_ci)
        /\ IF InList(R, R.dst_ip)
              /\ ~IsNone(R.ci_list[PositionOf(R, R.dst_ip)])
           THEN R.dst_ci = R.ci_list[PositionOf(R, R.dst_ip)]
           ELSE R.dst_ci = Some(DST_CI_DEFAULT)

\* C7: ci_list has exactly len(ip_list) entries and entry i is the result
\* for ip_list[i]: None when a lookup of that IP failed, else the carbon
\* intensity of the IP's carbon entry.
C7_CiListAligned ==
    ~IsNone(req) =>
        /\ Len(R.ci_list) = Len(R.ip_list)
        /\ \A i \in Positions(R) :
              R.ci_list[i] =
                  IF GeoFailed(R, R.ip_list[i]) \/ CiFailed(R, R.ip_list[i])
                  THEN None
                  ELSE Val(loc2ci_cache[R.ip_list[i]]).carbonIntensity

\* the carbon lookup of the second IP failed, the first has its value
C7_Witness ==
    /\ ~IsNone(req)
    /\ R.ip_list = <<"ip1", "ip2">>
    /\ R.ci_list = <<Some(10), None>>
    /\ CiFailed(R, "ip2")
    /\ ~CiFailed(R, "ip1")

\* C8: a resolver failure for one IP records None at that IP's position;
\* every IP of the list is processed, with the calls and the result that
\* the caches before the request and the resolvers' answers for that IP
\* alone determine.
C8_FailureIsLocal ==
    [][~IsNone(req') =>
          LET r == Val(req') IN
          /\ Len(r.ci_list) = Len(r.ip_list)
          /\ \A i \in Positions(r) :
                LET ip == r.ip_list[i]
                    fetched == \E k \in CiCallsFor(r, ip) :
                                   IsNone(r.ci_calls[k].resp[2])
                IN /\ (GeoCallsFor(r, ip) # {}) <=> IsNone(ip2loc_cache[ip])
                   /\ Cardinality(GeoCallsFor(r, ip)) <= 1
                   /\ Cardinality(CiCallsFor(r, ip)) <= 1
                   /\ GeoFailed(r, ip) => CiCallsFor(r, ip) = {}
                   /\ (GeoFailed(r, ip) \/ CiFailed(r, ip))
                          => r.ci_list[i] = None
                   /\ fetched =>
                          \E k \in CiCallsFor(r, ip) :
                              r.ci_list[i] =
                                  Val(r.ci_calls[k].resp[1]).carbonIntensity
                   /\ (~GeoFailed(r, ip) /\ CiCallsFor(r, ip) = {})
                          => r.ci_list[i] =
                                 Val(loc2ci_cache[ip]).carbonIntensity]_vars

\* the geolocation of the first IP failed; the second IP was still looked
\* up and has its value
C8_Witness ==
    /\ ~IsNone(req)
    /\ R.ip_list = <<"ip1", "ip2">>
    /\ GeoFailed(R, "ip1")
    /\ CiCallsFor(R, "ip2") # {}
    /\ R.ci_list = <<None, Some(10)>>

---------------------------------------------------------------------------
(* Claims about correlate *)

\* a valid ping event: a JSON object of type ping with probe id and timestamp
ValidPing(line) ==
    /\ line.kind = "json"
    /\ line.type = "ping"
    /\ ~IsNone(line.prb_id)
    /\ ~IsNone(line.timestamp)

\* V: the number of valid ping events in the input
ValidCount(ls) == Cardinality({i \in 1..Len(ls) : ValidPing(ls[i])})

\* C9 as stated: with the cap max_rows = N, correlate emits exactly
\* min(N, V) records, V the number of valid ping events, for every N >= 0.
C9_EmitsMinCapValid ==
    pc = "done" => Len(rows) = Min2(max_rows, ValidCount(lines))

PingsRead == SelectSeq(SubSeq(lines, 1, line_num), ValidPing)

\* the IP set the matcher selects for a ping event, stated by the selection
\* rule of C1 over the index of the event's probe
Selection(line) ==
    LET tp == IndexGet(Val(line.prb_id))
    IN IF Len(tp) = 0 THEN {}
       ELSE tp[FirstMaximiser(tp, Val(line.timestamp))].ips

Elems(seq) == {seq[i] : i \in 1..Len(seq)}

\* C11: each valid ping event processed yields exactly one record, the
\* records are in the order of the ping events, each record's resolved set
\* is the matcher's selection for the event's probe and timestamp, and
\* in_dns_set is 1 exactly when the destination IP is a member of that set
\* (0 when the destination is missing).
C11_OneRecordPerPing ==
    /\ Len(rows) = Len(PingsRead)
    /\ \A i \in 1..Len(rows) :
          LET line == PingsRead[i]
              row  == rows[i]
          IN /\ row.prb_id = Val(line.prb_id)
             /\ row.timestamp = Val(line.timestamp)
             /\ Elems(row.resolved_set) = Selection(line)
             /\ Len(row.resolved_set) = Cardinality(Selection(line))
             /\ row.in_dns_set \in {0, 1}
             /\ row.in_dns_set = 1 <=>
                    ( /\ ~IsNone(line.dst_addr)
                      /\ Val(line.dst_addr) \in Selection(line) )

\* three lines gave two records in input order: the first for a ping whose
\* destination is in the selected set, the second for a ping without a
\* destination at a probe that has no snapshots
C11_Witness ==
    /\ Len(lines) = 3
    /\ line_num = 3
    /\ lines[1] = PingA
    /\ ~ValidPing(lines[2])
    /\ lines[3] = PingB
    /\ Len(rows) = 2
    /\ rows[1].in_dns_set = 1
    /\ rows[1].resolved_set = <<"ip1", "ip2">>
    /\ rows[2].in_dns_set = 0
    /\ rows[2].resolved_set = <<>>

\* a ping whose destination is given and is not in the selected set
C11_WitnessNotMember ==
    /\ line_num = 1
    /\ lines[1] = PingC
    /\ Len(rows) = 1
    /\ rows[1].in_dns_set = 0
    /\ rows[1].selected_ip = "ip1"
    /\ rows[1].resolved_set = <<"ip2">>

---------------------------------------------------------------------------
(* Claims about ci_stats *)

\* the known entries of the ci_list correlate wrote for a record
KnownCi(rec) ==
    {Val(rec.ci_list[j]) : j \in {j \in 1..Len(rec.ci_list) :
                                     ~IsNone(rec.ci_list[j])}}

MinOfSet(S) == CHOOSE v \in S : \A w \in S : v <= w

\* the record's selected intensity is a number >= 0
Considered(rec) ==
    ~IsNone(rec.selected_ip_ci) /\ Val(rec.selected_ip_ci) >= 0

\* C12 as stated: compute_ci_aggregates considers only the rows whose
\* selected_ip_ci is a number >= 0; over those rows sum_selected is the sum
\* of selected_ip_ci, sum_best the sum of the per-row minimum of ci_list (0
\* for a row without an entry), abs_savings = sum_selected - sum_best,
\* pct_savings = abs_savings / sum_selected * 100 when sum_selected > 0 and
\* 0 otherwise; selected = [50, 80] and best = [20, 30] give 80.
C12_GlobalSavings ==
    ~IsNone(stats) =>
        LET st == Val(stats)
            n  == Len(records)
            sum_selected ==
                SumFrom([i \in 1..n |->
                            IF Considered(records[i])
                            THEN Val(records[i].selected_ip_ci) ELSE 0], 1)
            sum_best ==
                SumFrom([i \in 1..n |->
                            IF Considered(records[i])
                               /\ KnownCi(records[i]) # {}
                            THEN MinOfSet(KnownCi(records[i])) ELSE 0], 1)
        IN /\ st.df_ci = SelectSeq([i \in 1..n |-> i],
                                   LAMBDA i : Considered(records[i]))
           /\ st.sum_selected = sum_selected
           /\ st.sum_best = sum_best
           /\ st.abs_savings = sum_selected - sum_best
           /\ IF sum_selected > 0
              THEN st.pct_savings.num * sum_selected
                       = (sum_selected - sum_best) * 100 * st.pct_savings.den
              ELSE st.pct_savings.num = 0
           /\ ( /\ n = 2
                /\ records[1].selected_ip_ci = Some(50)
                /\ records[2].selected_ip_ci = Some(80) )
              => st.abs_savings = 80

\* the hour of a record: floor(timestamp / 3600)
HourOf(rec) == rec.timestamp \div 3600

\* the union of the ci_list entries of all input rows of hour h
HourPool(h) ==
    UNION {KnownCi(records[i]) :
             i \in {i \in 1..Len(records) : HourOf(records[i]) = h}}

\* C13 as stated: for every hour h the per-hour minimum equals the minimum
\* over the union of the ci_list entries of all input rows of hour h, the
\* rows left out of the global savings (selected intensity negative or
\* missing) included.
C13_HourlyMinOverAllRows ==
    ~IsNone(per_hour_min_ci) =>
        \A i \in 1..Len(records) :
            LET h == HourOf(records[i])
            IN IF HourPool(h) = {}
               THEN h \notin DOMAIN Val(per_hour_min_ci)
               ELSE /\ h \in DOMAIN Val(per_hour_min_ci)
                    /\ Val(per_hour_min_ci)[h] = MinOfSet(HourPool(h))

\* C14 as stated: a row written with ci_list = [10, null, 20] and
\* selected_ip_ci = 10, re-parsed by ci_stats, yields the same list values
\* (10, unknown, 20 at the same positions) and the same selected_ip_ci.
C14_RoundTrip ==
    ~IsNone(stats) =>
        \A i \in 1..Len(records) :
            ( /\ records[i].ci_list = <<Some(10), None, Some(20)>>
              /\ records[i].selected_ip_ci = Some(10) )
            => /\ Val(stats).selected[i] = Some(10)
               /\ Len(Val(stats).ci_list_parsed[i]) = 3
               /\ Val(stats).ci_list_parsed[i][1] = 10
               /\ Val(stats).ci_list_parsed[i][3] = 20

---------------------------------------------------------------------------
(* Claims about the cache file *)

\* the file holds a complete document or does not exist
CompleteOrAbsent(file) == IsNone(file) \/ json_load(Val(file)).ok

\* C15: in every state of a run, a crash at any step included, the cache
\* file holds either the complete document loaded at process start or the
\* complete document of the final caches, never a partial one; it changes
\* only at the single save step after all ping events, so the lookups made
\* before a mid-run crash are not on disk.
C15_CacheFileAtomic ==
    /\ CompleteOrAbsent(cache_file)
    /\ \/ cache_file = loaded
       \/ /\ pc = "exit"
          /\ cache_file = Some(Serialise(ip2loc_cache, loc2ci_cache))
    /\ pc \in {"loop", "done", "saving", "crashed"} => cache_file = loaded

\* a crash in the middle of json.dump after lookups that filled the caches:
\* the temporary file is partial, the cache file is the one loaded
C15_Witness ==
    /\ pc = "crashed"
    /\ ~IsNone(tmp_file)
    /\ Len(Val(tmp_file)) = 2
    /\ ~IsNone(loaded)
    /\ cache_file = loaded
    /\ ~IsNone(ip2loc_cache["ip1"])
    /\ Some(Serialise(ip2loc_cache, loc2ci_cache)) # loaded

\* a run that ended with the save: the file holds the final caches, which
\* differ from the loaded document
C15_WitnessSaved ==
    /\ pc = "exit"
    /\ cache_file # loaded
    /\ cache_file = Some(Serialise(ip2loc_cache, loc2ci_cache))
    /\ IsNone(tmp_file)

---------------------------------------------------------------------------
(* Claims about the snapshot indexer *)

\* the positions in the DNS file of the results observed for probe p
ResultsOf(p) ==
    {i \in 1..Len(dns_file) : dns_file[i].ok /\ dns_file[i].prb_id = p}

\* the probes of the DNS file
ProbesSeen == {dns_file[i].prb_id : i \in {i \in 1..Len(dns_file) :
                                             dns_file[i].ok}}

\* C16 as stated: every DNS result observed for a probe is its own
\* (timestamp, ips) candidate in the probe's index: the number of
\* candidates equals the number of results, and results that share a
\* timestamp are not merged.
C16_EveryResultRetained ==
    ~IsNone(dns_index) =>
        \A p \in DOMAIN Val(dns_index) :
            Len(Val(dns_index)[p]) = Cardinality(ResultsOf(p))

\* C16, amended: the index of a probe holds one candidate per distinct
\* timestamp of its results, with the union of the addresses of the
\* results of that timestamp; a probe is in the index exactly when one of
\* its results resolved an address.
C16_OneCandidatePerTimestamp ==
    ~IsNone(dns_index) =>
        LET index == Val(dns_index)
            times(p) == {dns_file[i].timestamp : i \in ResultsOf(p)}
        IN /\ DOMAIN index \subseteq ProbesSeen
           /\ \A p \in ProbesSeen :
                 /\ p \in DOMAIN index <=>
                        \E i \in ResultsOf(p) : dns_file[i].ips # {}
                 /\ p \in DOMAIN index =>
                        /\ Len(index[p]) = Cardinality(times(p))
                        /\ {index[p][k].t : k \in 1..Len(index[p])} = times(p)
                        /\ \A k \in 1..Len(index[p]) :
                              index[p][k].ips =
                                  UNION {dns_file[i].ips :
                                           i \in {i \in ResultsOf(p) :
                                                    dns_file[i].timestamp
                                                        = index[p][k].t}}

\* two results of probe 1 with the same timestamp and different addresses
\* became one candidate with both addresses; a third result is its own
\* candidate
C16_Witness ==
    /\ ~IsNone(dns_index)
    /\ Len(dns_file) = 3
    /\ ResultsOf(1) = {1, 2, 3}
    /\ dns_file[1].timestamp = dns_file[3].timestamp
    /\ dns_file[1].timestamp # dns_file[2].timestamp
    /\ dns_file[1].ips = {"ip1"}
    /\ dns_file[3].ips = {"ip2"}
    /\ Len(Val(dns_index)[1]) = 2
    /\ \E k \in 1..2 : Val(dns_index)[1][k].ips = {"ip1", "ip2"}

\* C17: for every probe of the index the snapshots are sorted in
\* non-decreasing order of integer timestamp, whatever the order and the
\* key type (int or decimal string) of the measurements.
C17_IndexSorted ==
    ~IsNone(dns_index) =>
        \A p \in DOMAIN Val(dns_index) :
            \A k \in 1..(Len(Val(dns_index)[p]) - 1) :
                Val(dns_index)[p][k].t <= Val(dns_index)[p][k + 1].t

\* string keys in the order "1000", "999" gave the index 999, 1000
C17_Witness ==
    /\ ~IsNone(dns_index)
    /\ ~IsNone(dns_results)
    /\ Len(Val(dns_results)) > 0
    /\ Val(dns_results)[1].key = StrKey(1)
    /\ Len(Val(dns_results)[1].measurements) = 2
    /\ Val(dns_results)[1].measurements[1].key = StrKey(1000)
    /\ Val(dns_results)[1].measurements[2].key = StrKey(999)
    /\ Val(dns_index)[1][1].t = 999
    /\ Val(dns_index)[1][2].t = 1000

---------------------------------------------------------------------------
(* Claims about the caches over a run *)

\* C18: once the location cache holds an entry for an IP, no later
\* add_ci_to_row request changes or removes the entry, and the geolocation
\* resolver is not called again for that IP for the rest of the run.
C18_LocationEntryKept ==
    [][\A ip \in IPs :
          ~IsNone(ip2loc_cache[ip]) =>
              /\ ip2loc_cache'[ip] = ip2loc_cache[ip]
              /\ rows' # rows => GeoCallsFor(Val(req'), ip) = {}]_vars

\* the second of two requests for ip1 and ip2: the entry of ip2 is the one
\* loaded from the cache file, which the resolver would not give again, the
\* entry of ip1 was fetched by the first request, and the second request
\* called the resolver for neither
C18_Witness ==
    /\ Len(rows) = 2
    /\ lines[1] = PingA
    /\ lines[2] = PingA
    /\ ~IsNone(loaded)
    /\ ip2loc_cache["ip2"] = PrevIpCountry["ip2"]
    /\ Val(ip2loc_cache["ip2"]) \notin Locations
    /\ ~IsNone(ip2loc_cache["ip1"])
    /\ R.ip_list = <<"ip1", "ip2">>
    /\ R.geo_calls = <<>>

\* C20: the carbon cache entry of an IP changes only through a successful
\* carbon-intensity fetch for that IP, after which it equals the fetched
\* response; a failed fetch leaves the previous, possibly stale, entry
\* unchanged, and no request changes the entry of an IP that is not in its
\* ip_list.
C20_CarbonEntryOverwrite ==
    [][\A ip \in IPs :
          LET r     == Val(req')
              calls == CiCallsFor(r, ip)
          IN /\ loc2ci_cache'[ip] # loc2ci_cache[ip] =>
                    \E k \in calls :
                        /\ IsNone(r.ci_calls[k].resp[2])
                        /\ loc2ci_cache'[ip] = r.ci_calls[k].resp[1]
             /\ \A k \in calls :
                    IF IsNone(r.ci_calls[k].resp[2])
                    THEN loc2ci_cache'[ip] = r.ci_calls[k].resp[1]
                    ELSE loc2ci_cache'[ip] = loc2ci_cache[ip]
             /\ ~InList(r, ip) => loc2ci_cache'[ip] = loc2ci_cache[ip]]_vars

\* the last request asked for ip1 alone at 16:00: the fetch failed and the
\* entry of the hour 15:00 is still there; ip2 has no entry
C20_Witness ==
    /\ ~IsNone(req)
    /\ R.ip_list = <<"ip1">>
    /\ R.time = T1600
    /\ CiFailed(R, "ip1")
    /\ ~IsNone(loc2ci_cache["ip1"])
    /\ Val(loc2ci_cache["ip1"]).datetime = Some(T1500)
    /\ IsNone(loc2ci_cache["ip2"])

\* ip2 was located by an earlier request; the fetch of this request, the
\* second of the run, succeeded and the entry of ip2 is its response
C20_WitnessOverwrite ==
    /\ ~IsNone(req)
    /\ Len(ELECTRICITYMAPS_ENDPOINT) = 2
    /\ R.geo_calls = <<>>
    /\ \E k \in CiCallsFor(R, "ip2") :
          /\ IsNone(R.ci_calls[k].resp[2])
          /\ loc2ci_cache["ip2"] = R.ci_calls[k].resp[1]
          /\ Val(loc2ci_cache["ip2"]).datetime = Some(T1600)
    /\ IsNone(loc2ci_cache["ip1"])

---------------------------------------------------------------------------
(* Claims about the latency comparison and the hourly baseline *)

\* the first position of the minimum non-null entry of the ci_list a
\* record was written with (0: no non-null entry)
BestPosition(rec) ==
    IF KnownCi(rec) = {} THEN 0
    ELSE LET at == {j \in 1..Len(rec.ci_list) :
                       rec.ci_list[j] = Some(MinOfSet(KnownCi(rec)))}
         IN CHOOSE j \in at : \A k \in at : j <= k

\* C21 as stated: the best-CI RTT of a row is rtt_list[i], i the position
\* in the row's original ci_list (null entries keeping their positions) of
\* the minimum non-null carbon intensity, the first on ties; a row without
\* a non-null entry has no best-CI RTT.
C21_BestRttAtOriginalPosition ==
    ~IsNone(best_rtt) =>
        \A i \in 1..Len(records) :
            Val(best_rtt)[i] =
                IF BestPosition(records[i]) = 0 THEN None
                ELSE RttColumn(records[i])[BestPosition(records[i])]

\* C25 as stated: the value compute_hourly_savings assigns to a row is at
\* most the minimum of the row's own ci_list, so sum_per_hour_min <=
\* sum_best and abs_savings_best_vs_hr >= 0.
C25_HourlyNeverWorse ==
    (~IsNone(hourly_savings) /\ ~IsNone(Val(hourly_savings))) =>
        LET hs    == Val(Val(hourly_savings))
            df_ci == Val(stats).df_ci
        IN /\ \A k \in 1..Len(df_ci) :
                 ( /\ ~IsNone(hs.per_row_hour_min[k])
                   /\ KnownCi(records[df_ci[k]]) # {} )
                 => Val(hs.per_row_hour_min[k])
                        <= MinOfSet(KnownCi(records[df_ci[k]]))
           /\ hs.sum_per_hour_min <= Val(stats).sum_best
           /\ hs.abs_savings_best_vs_hr >= 0

---------------------------------------------------------------------------
(* Claims about the endpoint, the scan order and the emitted value *)

\* C22 as stated: the request of loc_to_ci depends only on its arguments:
\* after any number of earlier calls, a call with a query instant targets
\* the base endpoint followed by exactly one /past segment.
C22_OnePastSegment ==
    ~IsNone(req) =>
        \A k \in 1..Len(R.ci_calls) : R.ci_calls[k].url = <<"/past">>

\* the orders a sequence of n candidates can be scanned in
ScanOrders(n) ==
    {p \in [1..n -> 1..n] : \A i, j \in 1..n : i # j => p[i] # p[j]}

Permuted(tp, p) == [i \in 1..Len(tp) |-> tp[p[i]]]

DistinctTimestamps(tp) ==
    \A i, j \in 1..Len(tp) : i # j => tp[i].t # tp[j].t

\* C23: for candidates with pairwise distinct timestamps the result of
\* find_latest_resolved_set for ts is the same for every permutation of
\* the sequence; the order matters only between equal timestamps.
C23_OrderIndependent ==
    (~IsNone(ret) /\ DistinctTimestamps(time_points)) =>
        \A p \in ScanOrders(Len(time_points)) :
            find_latest_resolved_set(Permuted(time_points, p), ts) = Val(ret)

\* three candidates with distinct timestamps, 1600 scanned before 1400, both
\* at distance 100 of ts = 1500 with the same prefix and different sets:
\* the later one wins whatever the order
C23_Witness ==
    /\ ~IsNone(ret)
    /\ ts = 1500
    /\ Len(time_points) = 3
    /\ DistinctTimestamps(time_points)
    /\ time_points[1].t = 1600 /\ time_points[1].ips = {"ip1"}
    /\ time_points[2].t = 1400 /\ time_points[2].ips = {"ip1", "ip2"}
    /\ Val(ret) = {"ip1"}

\* two candidates of one timestamp with different sets: the order decides
C23_WitnessSameTimestamp ==
    /\ ~IsNone(ret)
    /\ Len(time_points) = 2
    /\ time_points[1].t = time_points[2].t
    /\ \E p \in ScanOrders(2) :
           find_latest_resolved_set(Permuted(time_points, p), ts) # Val(ret)

\* C24: in every record correlate emitted, a selected_ip_ci different from
\* -1 implies in_dns_set = 1 and that the destination IP is an element of
\* the record's resolved set, and the value is the ci_list entry at the
\* destination's position in the sorted resolved set.
C24_SelectedCiFromList ==
    \A i \in 1..Len(rows) :
        LET row == rows[i]
        IN row.selected_ip_ci # Some(DST_CI_DEFAULT) =>
               /\ row.in_dns_set = 1
               /\ row.selected_ip \in Elems(row.resolved_set)
               /\ Len(row.ci_list) = Len(row.resolved_set)
               /\ \A k \in 1..Len(row.resolved_set) :
                      row.resolved_set[k] = row.selected_ip
                      => row.selected_ip_ci = row.ci_list[k]

\* a record whose destination ip2 is the second of two resolved IPs and
\* whose selected_ip_ci is the carbon intensity fetched for it
C24_Witness ==
    \E i \in 1..Len(rows) :
        /\ rows[i].selected_ip = "ip2"
        /\ rows[i].resolved_set = <<"ip1", "ip2">>
        /\ rows[i].in_dns_set = 1
        /\ rows[i].selected_ip_ci = Some(10)
        /\ rows[i].ci_list[2] = Some(10)

====
